---- MODULE Spec2Model ----
(***************************************************************************)
(* Model of load_tester.py: the LoadTester object, the dispatcher loop of  *)
(* run(), the request() threads it starts, and report() as main() calls    *)
(* it after run().                                                         *)
(*                                                                         *)
(* Every request thread is a little state machine over the shared fields   *)
(* errors, latencies and request_count.  `self.x += 1` is a read followed  *)
(* by a write, with no lock in the source, so both halves are steps of     *)
(* their own; list.append is one step.                                     *)
(***************************************************************************)
EXTENDS Integers, Sequences, FiniteSets, TLC

\* ---- bounds of the model ------------------------------------------------
\* largest request budget (max_requests) tried
MaxRequests == 2
\* threads run() may start in one behaviour (the source has no such limit)
MaxThreads == 2

\* longest result set the statistics are tried on (the spec's scenario apart)
MaxLen == 3
\* longest threshold list the statistics are tried on
MaxThresholds == 2
\* calls of calculate_response_time_percentiles tried on one result set
MaxCalls == 2

\* ---- values the inputs are drawn from -----------------------------------
\* --qps: a negative, a zero and a positive rate
QpsValues == {0 - 1, 0, 1}
\* --max_requests: non-positive budgets and the positive ones up to the bound
BudgetValues == (0 - 1)..MaxRequests
\* --percentiles: a list inside [0,100] and one outside of it
PercentileLists == {<<90>>, <<101>>}
\* time.time() - start_time; every duration of the model is in units of 0.05 s
LatencyValues == {1, 3}
\* --response_thres of a run: the default [0.25, 0.5]
RunThresholdLists == {<<5, 10>>}
\* the sequences over S of length at most n
BoundedSeq(S, n) == UNION {[1..k -> S] : k \in 0..n}
\* latencies of a finalized result set: below, at and above the thresholds
StatLatencyValues == {2, 5, 10}
\* the spec's scenario, latencies 0.1 .. 0.5 s against the threshold 0.25 s
ScenarioLatencies == <<2, 4, 6, 8, 10>>
ResultSets == BoundedSeq(StatLatencyValues, MaxLen) \cup {ScenarioLatencies}
\* threshold lists: the default values 0.25 s and 0.5 s, in any order, repeated
ThresholdValues == {5, 10}
ThresholdLists == BoundedSeq(ThresholdValues, MaxThresholds)
\* response.status_code values: 200 and one that is not 200
StatusCodes == {200, 500}
\* the local `response` of request() before requests.request has returned
Unbound == 0
Threads == 1..MaxThreads

\* The spec's bound on simultaneously in-flight requests.  The source has no
\* such field (line 191 only lists it as a wish); run() never reads it.
max_concurrency == 1

VARIABLES
    qps,            \* self.qps
    max_requests,   \* self.max_requests
    log_enabled,    \* self.log_enabled
    percentiles,    \* self.percentiles
    reponses,       \* self.reponses (sic), the response-time thresholds
    errors,         \* self.errors
    latencies,      \* self.latencies
    request_count,  \* self.request_count
    dpc,            \* where main() is: "run", "sleep", "returned", "run_error",
                    \* "reported", "report_error"
    started,        \* number of threading.Thread(target=self.request).start() calls
    pc,             \* per thread: where it is in request()
    status,         \* per thread: response.status_code, Unbound while the local
                    \* `response` is not assigned (it never is when the call raises)
    tmp,            \* per thread: the value read by the pending `+= 1`
    recorded,       \* per thread: number of entries it appended to latencies
    logged,         \* per thread: number of log_request calls it made
    report,         \* what report() printed: <<>> before, else a record
    stats           \* what the statistics code did last: the number of calls of
                    \* calculate_response_time_percentiles, how the last one ended,
                    \* the table it returned, the latency summary log_report wrote

vars == <<qps, max_requests, log_enabled, percentiles, errors, latencies,
          request_count, dpc, started, pc, status, tmp, recorded, logged, report,
          reponses, stats>>

config == <<qps, max_requests, log_enabled, percentiles, reponses>>
shared == <<errors, latencies, request_count>>
locals == <<pc, status, tmp, recorded, logged>>

\* nothing computed yet
NoStats == [calls |-> 0, outcome |-> "none", table |-> <<>>, summary |-> "none"]

\* ---- LoadTester.__init__ -------------------------------------------------
\* No field is validated: every combination of inputs constructs an object.
Init ==
    /\ qps \in QpsValues
    /\ max_requests \in BudgetValues
    /\ log_enabled \in BOOLEAN
    /\ percentiles \in PercentileLists
    /\ reponses \in RunThresholdLists
    /\ errors = 0
    /\ latencies = <<>>
    /\ request_count = 0
    /\ dpc = "run"
    /\ started = 0
    /\ pc = [t \in Threads |-> "idle"]
    /\ status = [t \in Threads |-> Unbound]
    /\ tmp = [t \in Threads |-> 0]
    /\ recorded = [t \in Threads |-> 0]
    /\ logged = [t \in Threads |-> 0]
    /\ report = <<>>
    /\ stats = NoStats

\* ---- helpers ---------------------------------------------------------------
\* a thread that left request(), normally or by an exception
Settled(t) == pc[t] \in {"done", "failed"}
\* a thread that was started and has not left request()
Running(t) == pc[t] \notin {"idle", "done", "failed"}
\* a request in flight: its thread waits in requests.request (lines 56-58)
InFlight(t) == pc[t] = "send"
\* a thread whose transport call raised (it left "send" with no response)
Raised(t) == pc[t] \notin {"idle", "send"} /\ status[t] = Unbound
InFlightCount == Cardinality({t \in Threads : InFlight(t)})
RunningCount == Cardinality({t \in Threads : Running(t)})

\* ---- LoadTester.run ----------------------------------------------------------
\* line 81 with the test off by one: the loop ends one request early
LoopConditionEarly == request_count + 1 < max_requests

\* line 81 with `<=` for `<`: the loop runs once more
LoopConditionInclusive == request_count <= max_requests

\* line 81: the loop test, read of self.request_count
LoopCondition == request_count < max_requests

\* lines 81-82: the test holds, a new thread running request() is started
Spawn ==
    /\ dpc = "run"
    /\ LoopCondition
    /\ started < MaxThreads
    /\ started' = started + 1
    /\ pc' = [pc EXCEPT ![started + 1] = "send"]
    /\ dpc' = "sleep"
    /\ UNCHANGED <<config, shared, status, tmp, recorded, logged, report, stats>>

\* lines 83-84: time.sleep(1 / self.qps); 1/0 raises ZeroDivisionError and a
\* negative sleep raises ValueError, both out of run()
Sleep ==
    /\ dpc = "sleep"
    /\ dpc' = IF qps > 0 THEN "run" ELSE "run_error"
    /\ UNCHANGED <<config, shared, started, locals, report, stats>>

\* lines 81, 85 with a loop that ends only on request_count == max_requests
ReturnOnExactCount ==
    /\ dpc = "run"
    /\ request_count = max_requests
    /\ dpc' = "returned"
    /\ UNCHANGED <<config, shared, started, locals, report, stats>>

\* lines 81, 85: the test fails, the loop ends and run() returns (no join)
Return ==
    /\ dpc = "run"
    /\ ~LoopCondition
    /\ dpc' = "returned"
    /\ UNCHANGED <<config, shared, started, locals, report, stats>>

\* ---- LoadTester.request --------------------------------------------------------
\* lines 56-62: the transport returns a response; the latency is appended
AppendLatency(l) == Append(latencies, l)

Respond(t) ==
    /\ pc[t] = "send"
    /\ \E s \in StatusCodes, l \in LatencyValues :
        /\ status' = [status EXCEPT ![t] = s]
        /\ latencies' = AppendLatency(l)
        /\ recorded' = [recorded EXCEPT ![t] = @ + 1]
        /\ pc' = [pc EXCEPT ![t] = IF s # 200 THEN "err_read" ELSE "cnt_read"]
    /\ UNCHANGED <<config, errors, request_count, dpc, started, tmp, logged, report, stats>>

\* lines 63-65: the transport raises; the handler computes a latency but does
\* not append it
Raise(t) ==
    /\ pc[t] = "send"
    /\ pc' = [pc EXCEPT ![t] = "err_read"]
    /\ UNCHANGED <<config, shared, dpc, started, status, tmp, recorded, logged, report, stats>>

\* lines 62, 66: self.errors += 1, the read
ErrRead(t) ==
    /\ pc[t] = "err_read"
    /\ tmp' = [tmp EXCEPT ![t] = errors]
    /\ pc' = [pc EXCEPT ![t] = "err_write"]
    /\ UNCHANGED <<config, shared, dpc, started, status, recorded, logged, report, stats>>

\* lines 62, 66: self.errors += 1, the write
ErrWrite(t) ==
    /\ pc[t] = "err_write"
    /\ errors' = tmp[t] + 1
    /\ tmp' = [tmp EXCEPT ![t] = 0]
    /\ pc' = [pc EXCEPT ![t] = "cnt_read"]
    /\ UNCHANGED <<config, latencies, request_count, dpc, started, status,
                   recorded, logged, report, stats>>

\* line 68: self.request_count += 1, the read
CntRead(t) ==
    /\ pc[t] = "cnt_read"
    /\ tmp' = [tmp EXCEPT ![t] = request_count]
    /\ pc' = [pc EXCEPT ![t] = "cnt_write"]
    /\ UNCHANGED <<config, shared, dpc, started, status, recorded, logged, report, stats>>

\* line 68: self.request_count += 1, the write
CntWrite(t) ==
    /\ pc[t] = "cnt_write"
    /\ request_count' = tmp[t] + 1
    /\ tmp' = [tmp EXCEPT ![t] = 0]
    /\ pc' = [pc EXCEPT ![t] = "log"]
    /\ UNCHANGED <<config, errors, latencies, dpc, started, status,
                   recorded, logged, report, stats>>

\* lines 70-71: with logging on, log_request(start_time, latency,
\* response.status_code) is called; `response` is unbound when the transport
\* raised, so evaluating the arguments raises UnboundLocalError out of request()
LogEnabled == log_enabled

Log(t) ==
    /\ pc[t] = "log"
    /\ IF LogEnabled
       THEN IF status[t] = Unbound
            THEN /\ pc' = [pc EXCEPT ![t] = "failed"]
                 /\ UNCHANGED logged
            ELSE /\ pc' = [pc EXCEPT ![t] = "done"]
                 /\ logged' = [logged EXCEPT ![t] = @ + 1]
       ELSE /\ pc' = [pc EXCEPT ![t] = "done"]
            /\ UNCHANGED logged
    /\ UNCHANGED <<config, shared, dpc, started, status, tmp, recorded, report, stats>>

\* ---- LoadTester.report, as main() calls it right after run() -------------------
\* np.percentile raises ValueError for a percentile outside [0, 100]
PercentilesInRange == \A i \in 1..Len(percentiles) :
                          percentiles[i] >= 0 /\ percentiles[i] <= 100

\* ---- LoadTester.calculate_response_time_percentiles ----------------------------
\* line 156 with `>` for `>=`: a latency equal to the threshold is not counted
RECURSIVE CountAbove(_, _)
CountAbove(lats, threshold) ==
    IF lats = <<>> THEN 0
    ELSE (IF Head(lats) > threshold THEN 1 ELSE 0)
         + CountAbove(Tail(lats), threshold)

\* line 156 with `<=` for `>=`: the latencies meeting the threshold are counted
RECURSIVE CountAtMost(_, _)
CountAtMost(lats, threshold) ==
    IF lats = <<>> THEN 0
    ELSE (IF Head(lats) <= threshold THEN 1 ELSE 0)
         + CountAtMost(Tail(lats), threshold)

\* line 156: count = sum(latency >= threshold for latency in self.latencies)
RECURSIVE CountAtLeast(_, _)
CountAtLeast(lats, threshold) ==
    IF lats = <<>> THEN 0
    ELSE (IF Head(lats) >= threshold THEN 1 ELSE 0)
         + CountAtLeast(Tail(lats), threshold)

\* line 157: (count / total_requests) * 100, kept as the exact fraction
\* <<numerator, denominator>>; line 158 formats it, str(percentage) + "%",
\* which names the same number
Percentage(count, total_requests) == <<count * 100, total_requests>>

\* lines 155-158: the loop over the thresholds, filling the dict; the division
\* of line 157 raises ZeroDivisionError when self.latencies is empty
RECURSIVE ThresholdLoop(_, _, _)
ThresholdLoop(lats, thresholds, response_time_counts) ==
    IF thresholds = <<>>
    THEN [outcome |-> "ok", table |-> response_time_counts]
    ELSE IF Len(lats) = 0
    THEN [outcome |-> "ZeroDivisionError", table |-> <<>>]
    ELSE ThresholdLoop(lats, Tail(thresholds),
             (Head(thresholds) :> Percentage(CountAtLeast(lats, Head(thresholds)),
                                             Len(lats)))
             @@ response_time_counts)

\* lines 152-160: the call as a whole, from an empty dict
CalculateResponseTimePercentiles(lats, thresholds) ==
    ThresholdLoop(lats, thresholds, <<>>)

\* a call of calculate_response_time_percentiles(thresholds=self.reponses) on
\* the object as it is; it writes no field of the object
StatsAfterCall ==
    LET r == CalculateResponseTimePercentiles(latencies, reponses)
    IN  [stats EXCEPT !.calls = @ + 1, !.outcome = r.outcome,
                      !.table = IF r.outcome = "ok" THEN r.table ELSE @]

\* ---- LoadTester.log_report ------------------------------------------------------
\* lines 109-140.  open(self.log_file) fails when logging is off (nothing is
\* written); an empty result set writes the "No Requests made" line; otherwise
\* the summary (average, max, min, amplitude, standard deviation) is written,
\* then the percentiles (np.percentile raises outside [0, 100]), then the
\* threshold table when self.reponses is not empty
LogReportStats ==
    IF ~log_enabled THEN stats
    ELSE IF latencies = <<>> THEN [stats EXCEPT !.summary = "no data"]
    ELSE IF ~PercentilesInRange \/ reponses = <<>>
    THEN [stats EXCEPT !.summary = "computed"]
    ELSE [StatsAfterCall EXCEPT !.summary = "computed"]

\* lines 98-100 and log_report: the totals are printed, then log_report opens
\* self.log_file, which __init__ sets only when logging is on
Report ==
    /\ dpc = "returned"
    /\ report' = [total_requests |-> Len(latencies), total_errors |-> errors]
    /\ stats' = LogReportStats
    /\ dpc' = IF ~log_enabled THEN "report_error"
              ELSE IF latencies # <<>> /\ ~PercentilesInRange THEN "report_error"
              ELSE "reported"
    /\ UNCHANGED <<config, shared, started, locals>>

Next ==
    \/ Spawn
    \/ Sleep
    \/ Return
    \/ Report
    \/ \E t \in Threads : Respond(t)
    \/ \E t \in Threads : Raise(t)
    \/ \E t \in Threads : ErrRead(t)
    \/ \E t \in Threads : ErrWrite(t)
    \/ \E t \in Threads : CntRead(t)
    \/ \E t \in Threads : CntWrite(t)
    \/ \E t \in Threads : Log(t)

Spec == Init /\ [][Next]_vars

\* ---- the statistics on a finalized result set -----------------------------------
\* A LoadTester whose run is over and whose result set is given: run() has
\* returned, no thread is left, latencies holds the measured values.
InitStats ==
    /\ qps = 1
    /\ max_requests \in 0..MaxRequests
    /\ log_enabled \in BOOLEAN
    /\ percentiles = <<90>>
    /\ reponses \in ThresholdLists
    /\ latencies \in ResultSets
    /\ errors \in {0, Len(latencies)}
    /\ request_count = max_requests
    /\ dpc = "returned"
    /\ started = 0
    /\ pc = [t \in Threads |-> "idle"]
    /\ status = [t \in Threads |-> Unbound]
    /\ tmp = [t \in Threads |-> 0]
    /\ recorded = [t \in Threads |-> 0]
    /\ logged = [t \in Threads |-> 0]
    /\ report = <<>>
    /\ stats = NoStats

\* the call with a loop that pops the latencies it counts
CalculateDraining ==
    /\ stats.calls < MaxCalls
    /\ stats' = StatsAfterCall
    /\ latencies' = <<>>
    /\ UNCHANGED <<config, errors, request_count, dpc, started, locals, report>>

\* a caller invokes calculate_response_time_percentiles(self.reponses) itself
Calculate ==
    /\ stats.calls < MaxCalls
    /\ stats' = StatsAfterCall
    /\ UNCHANGED <<config, shared, dpc, started, locals, report>>

NextStats ==
    \/ Calculate
    \/ Report

SpecStats == InitStats /\ [][NextStats]_vars

\* ---- runs in which requests never overlap with issuance ---------------------------
\* every started request has executed line 68
NoPending == \A t \in Threads : pc[t] \in {"idle", "log", "done", "failed"}

\* the steps of Next, the loop test taken only when no request is pending
NextNoOverlap ==
    \/ NoPending /\ Spawn
    \/ Sleep
    \/ NoPending /\ Return
    \/ Report
    \/ \E t \in Threads : Respond(t)
    \/ \E t \in Threads : Raise(t)
    \/ \E t \in Threads : ErrRead(t)
    \/ \E t \in Threads : ErrWrite(t)
    \/ \E t \in Threads : CntRead(t)
    \/ \E t \in Threads : CntWrite(t)
    \/ \E t \in Threads : Log(t)

SpecNoOverlap == Init /\ [][NextNoOverlap]_vars

\* ---- runs that start more threads than the model has thread records ---------------
\* lines 81-82 once MaxThreads threads were started: the new thread takes the
\* record of a thread that has left request(); its per-thread values start anew
Respawn ==
    /\ dpc = "run"
    /\ LoopCondition
    /\ started >= MaxThreads
    /\ \E t \in Threads :
        /\ Settled(t)
        /\ pc' = [pc EXCEPT ![t] = "send"]
        /\ status' = [status EXCEPT ![t] = Unbound]
        /\ recorded' = [recorded EXCEPT ![t] = 0]
        /\ logged' = [logged EXCEPT ![t] = 0]
    /\ started' = started + 1
    /\ dpc' = "sleep"
    /\ UNCHANGED <<config, shared, tmp, report, stats>>

NextReuse ==
    \/ Next
    \/ Respawn

\* the objects of Init with the default percentile list; report() is the only
\* reader of self.percentiles
InitRun == Init /\ percentiles = <<90>>

SpecReuse == InitRun /\ [][NextReuse]_vars

\* ---- scheduling -------------------------------------------------------------------
\* the steps of the main thread
Dispatch == Spawn \/ Respawn \/ Sleep \/ Return \/ Report
\* the steps of one request thread; Respond or Raise is the transport call
\* ending, which it does within self.timeout
ThreadStep(t) ==
    \/ Respond(t) \/ Raise(t)
    \/ ErrRead(t) \/ ErrWrite(t)
    \/ CntRead(t) \/ CntWrite(t)
    \/ Log(t)

\* the interpreter schedules every runnable thread again and again
Fairness == WF_vars(Dispatch) /\ \A t \in Threads : WF_vars(ThreadStep(t))

SpecFair == SpecReuse /\ Fairness

\* ---- the claims ---------------------------------------------------------------
\* a configuration the spec calls valid: positive rate and budget, every
\* percentile inside [0, 100]
ValidRun == qps > 0 /\ max_requests >= 1 /\ PercentilesInRange
\* run() has returned to main()
RunReturned == dpc \in {"returned", "reported", "report_error"}
\* the configuration errors the spec lists
ConfigError == ~ValidRun

\* C1: with a budget B >= 1, run() starts exactly B request attempts: never
\* more than B, and B of them once it has returned.
C1_ExactlyBudgetStarted ==
    ValidRun => /\ started <= max_requests
                /\ (RunReturned => started = max_requests)

\* C2: recorded outcomes plus in-flight requests never exceed the budget, and
\* once run() has returned and every request has settled the number of
\* recorded outcomes (the total report() prints) is the budget.
C2_RecordedWithinBudget ==
    ValidRun =>
        /\ Len(latencies) + InFlightCount <= max_requests
        /\ (RunReturned /\ InFlightCount = 0 => Len(latencies) = max_requests)
        /\ (report # <<>> /\ InFlightCount = 0
                => report.total_requests = max_requests)

\* C3: when run() has returned, and so whenever report() reads the results,
\* no request is in flight.
C3_ReturnedOnlyWhenDrained == ValidRun /\ RunReturned => InFlightCount = 0

\* C4: the number of requests in flight at once never exceeds max_concurrency.
C4_ConcurrencyBounded == ValidRun => InFlightCount <= max_concurrency

\* C5: every attempt whose transport call is over, by a 200, a non-200 or an
\* exception, has appended exactly one latency entry.
C5_OneLatencyPerAttempt ==
    ValidRun => \A t \in Threads : pc[t] \notin {"idle", "send"} => recorded[t] = 1

\* C6: once every started request has completed, errors is the number of
\* attempts that raised plus the number that returned a status other than 200.
C6_ErrorsCountFailures ==
    ValidRun /\ RunningCount = 0 =>
        errors = Cardinality({t \in Threads : Raised(t)})
                 + Cardinality({t \in Threads : status[t] \notin {Unbound, 200}})

\* C7: an attempt whose transport call raised never leaves request() by an
\* exception, whether logging is on or off.
C7_FailureNeverEscapes ==
    ValidRun => \A t \in Threads : Raised(t) => pc[t] # "failed"

\* C8: under a configuration error no request attempt is ever started and the
\* program never gets through run() normally.
C8_ConfigErrorFatalAtStartup ==
    ConfigError => started = 0 /\ ~RunReturned

\* C9: with logging on every completed attempt called log_request exactly
\* once; with logging off no attempt ever called it.
C9_LoggingFollowsFlag ==
    ValidRun =>
        /\ log_enabled => \A t \in Threads : Settled(t) => logged[t] = 1
        /\ ~log_enabled => \A t \in Threads : logged[t] = 0

\* C10: when the N started request threads have all completed, the result set
\* holds exactly N entries, one from each thread.
C10_ConcurrentRecordingSafe ==
    ValidRun /\ started > 0 /\ RunningCount = 0 =>
        /\ Len(latencies) = started
        /\ \A t \in 1..started : recorded[t] = 1

\* C11: a report taken while a request is still in flight is rejected: the step
\* out of "returned" prints no totals and writes no statistics.
C11_ReportRejectedWhileInFlight ==
    [][ValidRun /\ dpc = "returned" /\ dpc' # "returned" /\ InFlightCount > 0
          => report' = <<>> /\ stats' = stats]_vars

\* C12: on an empty result set the summary is "no data" and a call of
\* calculate_response_time_percentiles ends normally, for every threshold list.
C12_EmptyNeverDividesByZero ==
    latencies = <<>> =>
        /\ stats.outcome # "ZeroDivisionError"
        /\ stats.summary \in {"none", "no data"}
\* the thresholds of a list
Range(seq) == {seq[i] : i \in 1..Len(seq)}
\* a call of calculate_response_time_percentiles has returned a table for the
\* non-empty result set of the object
TableComputed == stats.outcome = "ok" /\ latencies # <<>>
\* the number of latencies at or above t, counted over the indices
AtOrAbove(t) == Cardinality({i \in 1..Len(latencies) : latencies[i] >= t})

\* C13: for a non-empty result set of N latencies the table has one entry per
\* threshold t of the list, and it is 100 * |{latency >= t}| / N.
C13_ExceedanceIsShareAtOrAbove ==
    TableComputed =>
        /\ DOMAIN stats.table = Range(reponses)
        /\ \A t \in DOMAIN stats.table :
               stats.table[t][1] * Len(latencies)
                   = 100 * AtOrAbove(t) * stats.table[t][2]

\* C13, its case: the scenario's five latencies against 0.25 s give 60%,
\* and a latency equal to the threshold is counted
C13_Witness ==
    /\ TableComputed
    /\ latencies = ScenarioLatencies
    /\ 5 \in DOMAIN stats.table
    /\ stats.table[5] = <<300, 5>>

\* C14: for a fixed non-empty result set, a larger threshold never has a larger
\* exceedance percentage.
C14_ExceedanceMonotone ==
    TableComputed =>
        \A t1, t2 \in DOMAIN stats.table :
            t1 <= t2 => stats.table[t2][1] * stats.table[t1][2]
                            <= stats.table[t1][1] * stats.table[t2][2]

\* C14, its case: two thresholds, the larger with the strictly smaller share
C14_Witness ==
    /\ TableComputed
    /\ DOMAIN stats.table = {5, 10}
    /\ stats.table[10][1] < stats.table[5][1]
    /\ stats.table[10][1] > 0

C16_CountEqualsCompleted ==
    ValidRun /\ RunningCount = 0 => request_count = started
\* C17: under fair scheduling a run with max_requests >= 1 terminates: run()
\* leaves its loop and every started request leaves request().
C17_RunTerminates ==
    max_requests >= 1 => <>(dpc \notin {"run", "sleep"} /\ RunningCount = 0)
\* C17, its case: a run with a budget of two has ended and every request
\* has left request()
C17_Witness ==
    /\ max_requests = 2 /\ qps > 0
    /\ RunReturned /\ RunningCount = 0 /\ started >= 2

\* a thread that has executed line 68, the counting step of request()
Counted(t) == pc[t] \in {"log", "done", "failed"}

\* C18: in the step in which run() leaves its loop, request_count is at least
\* max_requests and at least max_requests started attempts have executed the
\* counting step.
C18_NeverUnderIssues ==
    [][dpc = "run" /\ dpc' = "returned" =>
          /\ request_count' >= max_requests
          /\ Cardinality({t \in Threads : Counted(t)}) >= max_requests]_vars

\* C18, its case: run() has left its loop with a budget of two
C18_Witness == dpc = "returned" /\ max_requests = 2 /\ qps > 0

\* C19: when no request is pending at any loop test, run() starts exactly
\* max_requests requests and returns with request_count = max_requests.
C19_SequentialRunExact ==
    max_requests >= 0 =>
        /\ started <= max_requests
        /\ (RunReturned => started = max_requests
                           /\ request_count = max_requests)

\* C19, its case: a run with a budget of two has returned
C19_Witness == RunReturned /\ max_requests = 2 /\ started = 2

\* C20: errors, len(latencies) and request_count never exceed the number of
\* attempts started, and no step decreases any of the three.
C20_CountersBoundedMonotone ==
    [][/\ errors' <= started' /\ Len(latencies') <= started'
       /\ request_count' <= started'
       /\ errors' >= errors /\ Len(latencies') >= Len(latencies)
       /\ request_count' >= request_count]_vars

====
